---- MODULE Spec2Model ----
(***************************************************************************)
(* po-parser (src/main.rs): a checker for gettext .po catalogs.  Every     *)
(* msgstr / continuation line of a catalog is compared with the most       *)
(* recent msgid line: the interpolations the pattern finds in both are     *)
(* counted, and a line whose count differs and which lacks one of the      *)
(* msgid's interpolations is reported.                                     *)
(*                                                                         *)
(* Text is a sequence of one-character strings, so that prefixes,          *)
(* substrings and regex matches are computed on the characters.            *)
(***************************************************************************)
EXTENDS Integers, Sequences, FiniteSets, TLC

(***************************************************************************)
(* Bounds of the model.                                                    *)
(***************************************************************************)
\* longest text between the quotes of a msgid line given to the matcher
MaxSrcLen == 4
\* longest text between the quotes of a msgstr / continuation line
MaxLineLen == 3

\* characters of the texts between the quotes
Alphabet == {"{", "}", "a"}

SeqsUpTo(A, n) == UNION {[1..k -> A] : k \in 0..n}

(***************************************************************************)
(* The lines of a catalog.                                                 *)
(***************************************************************************)
MSGID == <<"m", "s", "g", "i", "d">>
MSGSTR == <<"m", "s", "g", "s", "t", "r">>
QUOTE == <<"\"">>
\* the two "intentionally empty" lines of main.rs:39-40
EMPTY_MSGSTR == MSGSTR \o <<" ">> \o QUOTE \o QUOTE
EMPTY_QUOTED == QUOTE \o QUOTE

MsgidLine(body) == MSGID \o <<" ">> \o QUOTE \o body \o QUOTE
MsgstrLine(body) == MSGSTR \o <<" ">> \o QUOTE \o body \o QUOTE
QuotedLine(body) == QUOTE \o body \o QUOTE
CommentLine(body) == <<"#">> \o body

\* str::starts_with
starts_with(line, prefix) ==
    /\ Len(line) >= Len(prefix)
    /\ \A j \in 1..Len(prefix) : line[j] = prefix[j]

\* str::contains with a literal needle
contains(line, needle) ==
    \E i \in 0..(Len(line) - Len(needle)) :
        \A j \in 1..Len(needle) : line[i + j] = needle[j]

(***************************************************************************)
(* The patterns (--pattern).  A pattern is kept as its text; what the      *)
(* regex crate does with it is MatchEndAt.                                 *)
(***************************************************************************)
\* default_value_t of Args.pattern:  \{\{.*\}\}|\{.*\}
DefaultPattern == "\\{\\{.*\\}\\}|\\{.*\\}"
\* a non-greedy placeholder pattern a user would pass:  \{[^}]*\}
LazyPattern == "\\{[^}]*\\}"
\* a pattern whose matches differ in length, as %+ or \d+ would:  a+
RunPattern == "a+"
\* a pattern that also matches the empty string, as \d* would:  a*
StarPattern == "a*"
\* a pattern that is no regular expression: Regex::new returns Err
InvalidPattern == "("

ValidPatterns == {DefaultPattern, LazyPattern, RunPattern, StarPattern}
\* the patterns a call of the matcher is given in SpecMatcher
Patterns == {DefaultPattern, LazyPattern, RunPattern, InvalidPattern}

\* Regex::new(pattern).is_ok()
Compiles(pattern) == pattern \in ValidPatterns

\* positions j in lo..hi of s holding character c
Positions(s, c, lo, hi) == {j \in lo..hi : j <= Len(s) /\ s[j] = c}

SetMax(S) == CHOOSE x \in S : \A y \in S : y <= x
SetMin(S) == CHOOSE x \in S : \A y \in S : x <= y

\* \{\{.*\}\} anchored at i: "{{", the longest run of any characters, "}}".
\* The greedy .* gives back characters until "}}" follows, so the match
\* ends at the last "}}" of the line.  0 when it does not match at i.
DoubleBraceEnd(s, i) ==
    LET closes == {j \in (i + 2)..(Len(s) - 1) : s[j] = "}" /\ s[j + 1] = "}"}
    IN  IF /\ i + 1 <= Len(s)
           /\ s[i] = "{"
           /\ s[i + 1] = "{"
           /\ closes # {}
        THEN SetMax(closes) + 1
        ELSE 0

\* \{.*\} anchored at i: ends at the last "}" of the line.
GreedyBraceEnd(s, i) ==
    LET closes == Positions(s, "}", i + 1, Len(s))
    IN  IF s[i] = "{" /\ closes # {} THEN SetMax(closes) ELSE 0

\* \{[^}]*\} anchored at i: ends at the first "}" after i.
LazyBraceEnd(s, i) ==
    LET closes == Positions(s, "}", i + 1, Len(s))
    IN  IF s[i] = "{" /\ closes # {} THEN SetMin(closes) ELSE 0

\* a+ anchored at i: the whole run of "a" that starts at i.
RunEnd(s, i) ==
    LET stops == {j \in (i + 1)..(Len(s) + 1) : j = Len(s) + 1 \/ s[j] # "a"}
    IN  IF s[i] = "a" THEN SetMin(stops) - 1 ELSE 0

\* The last position of the match of pattern that starts at position i of
\* s, or 0.  An alternation takes its first branch that matches at i
\* (leftmost-first), not the longest.
MatchEndAt(pattern, s, i) ==
    IF pattern = DefaultPattern
    THEN LET e == DoubleBraceEnd(s, i)
         IN  IF e # 0 THEN e ELSE GreedyBraceEnd(s, i)
    ELSE IF pattern = LazyPattern
         THEN LazyBraceEnd(s, i)
         ELSE RunEnd(s, i)

\* Regex::find_iter: the successive non-overlapping matches, leftmost
\* first: the search moves on one position where nothing matches, and
\* resumes after the match where one does (no match here is empty).
RECURSIVE FindFrom(_, _, _)
FindFrom(pattern, s, i) ==
    IF i > Len(s)
    THEN <<>>
    ELSE LET e == MatchEndAt(pattern, s, i)
         IN  IF e = 0
             THEN FindFrom(pattern, s, i + 1)
             ELSE <<SubSeq(s, i, e)>> \o FindFrom(pattern, s, e + 1)

\* Regex::find_iter of a*, which matches at every position: the run of "a"
\* that starts at i, or the empty string where there is none (also at the
\* end of s).  An empty match right where the previous match ended is not
\* reported: the search moves on one position.  last is the position after
\* the previous match, 0 before the first.
RECURSIVE FindStar(_, _, _)
FindStar(s, i, last) ==
    IF i > Len(s) + 1
    THEN <<>>
    ELSE LET e == IF i <= Len(s) THEN RunEnd(s, i) ELSE 0
         IN  IF e # 0
             THEN <<SubSeq(s, i, e)>> \o FindStar(s, e + 1, e + 1)
             ELSE IF last = i
                  THEN FindStar(s, i + 1, last)
                  ELSE <<<<>>>> \o FindStar(s, i + 1, i)

find_iter(pattern, s) ==
    IF pattern = StarPattern THEN FindStar(s, 1, 0) ELSE FindFrom(pattern, s, 1)

(***************************************************************************)
(* find_missing_interpolations (main.rs:31-54).                            *)
(* The result is "panic" (Regex::new(..).unwrap() on an invalid pattern),  *)
(* None, or Some with the position in the msgid's interpolations of the    *)
(* one that made the function return.                                      *)
(***************************************************************************)
PENDING == [kind |-> "pending", at |-> 0]
PANIC == [kind |-> "panic", at |-> 0]
NONE == [kind |-> "None", at |-> 0]
SOME(k) == [kind |-> "Some", at |-> k]

\* IsMissing without the "\"\"" exception
IsMissing_NoQuotedException(regex_match, line) ==
    /\ ~contains(line, regex_match)
    /\ line # EMPTY_MSGSTR

\* IsMissing without the substring test
IsMissing_NoContains(regex_match, line) ==
    /\ line # EMPTY_MSGSTR
    /\ line # EMPTY_QUOTED

\* the condition of the if at main.rs:38-40
IsMissing(regex_match, line) ==
    /\ ~contains(line, regex_match)
    /\ line # EMPTY_MSGSTR
    /\ line # EMPTY_QUOTED

\* the loop without its early return: the last missing interpolation wins
MissingLoop_Last(msgid_interpolations, line, k) ==
    LET missing == {j \in k..Len(msgid_interpolations) :
                        IsMissing(msgid_interpolations[j], line)}
    IN  IF missing = {} THEN NONE ELSE SOME(SetMax(missing))

\* the for loop of main.rs:36-51, from its k-th iteration on
RECURSIVE MissingLoop(_, _, _)
MissingLoop(msgid_interpolations, line, k) ==
    IF k > Len(msgid_interpolations)
    THEN NONE
    ELSE IF IsMissing(msgid_interpolations[k], line)
         THEN SOME(k)
         ELSE MissingLoop(msgid_interpolations, line, k + 1)

\* find_missing_interpolations without the comparison of the counts
find_missing_interpolations_NoCount(pattern, last_msgid, line) ==
    IF ~Compiles(pattern)
    THEN PANIC
    ELSE MissingLoop(find_iter(pattern, last_msgid), line, 1)

find_missing_interpolations(pattern, last_msgid, line) ==
    IF ~Compiles(pattern)
    THEN PANIC
    ELSE LET msgid_interpolations == find_iter(pattern, last_msgid)
             msgstr_interpolations == find_iter(pattern, line)
         IN  IF Len(msgid_interpolations) # Len(msgstr_interpolations)
             THEN MissingLoop(msgid_interpolations, line, 1)
             ELSE NONE

(***************************************************************************)
(* process_file (main.rs:56-84): one scan of one catalog.  A scan is a     *)
(* record: where it is (pc), its local variables under their names, and    *)
(* two records of what happened: the lines read so far and the calls of    *)
(* find_missing_interpolations.                                            *)
(*   pc: "open"     before File::open (main.rs:57)                         *)
(*       "lines"    in the for loop (main.rs:63-81)                        *)
(*       "returned" Ok(errors) returned (main.rs:83)                       *)
(*       "failed"   Err returned by a ? (main.rs:57, 64)                   *)
(*       "panicked" unwound from the unwrap of main.rs:32                  *)
(***************************************************************************)
\* NewScan with a last_msgid left over from another file
NewScan_StaleMsgid(path) ==
    [path |-> path, pc |-> "open", read |-> <<>>,
     last_msgid |-> MSGID \o <<" ">> \o QUOTE \o <<"{", "}">> \o QUOTE,
     line_index |-> 1, errors |-> <<>>, calls |-> <<>>]

\* main.rs:59-62: the locals before the first line is read
NewScan(path) ==
    [path |-> path, pc |-> "open", read |-> <<>>, last_msgid |-> <<>>,
     line_index |-> 1, errors |-> <<>>, calls |-> <<>>]

\* what the format! of main.rs:42-49 puts in the message (pb.message() is
\* never set and stays empty)
Report(path, line_index, last_msgid, line) ==
    [path |-> path, line_index |-> line_index, last_msgid |-> last_msgid,
     line |-> line]

Call(last_msgid, line, line_index) ==
    [last_msgid |-> last_msgid, line |-> line, line_index |-> line_index]

\* main.rs:67: the lines given to find_missing_interpolations
IsTranslationPrefix(line) == starts_with(line, MSGSTR) \/ starts_with(line, QUOTE)

\* CheckLine with the test of the result inverted: None is reported
CheckLine_Inverted(pattern, t, line) ==
    LET r == find_missing_interpolations(pattern, t.last_msgid, line)
        called == [t EXCEPT !.calls = Append(@, Call(t.last_msgid, line, t.line_index))]
    IN  IF r = PANIC
        THEN [called EXCEPT !.pc = "panicked"]
        ELSE IF r.kind = "None"
             THEN [called EXCEPT
                       !.errors = Append(@, Report(t.path, t.line_index, t.last_msgid, line)),
                       !.line_index = @ + 1]
             ELSE [called EXCEPT !.line_index = @ + 1]

\* main.rs:68-78: the else-if branch, on a scan t whose line has been read
CheckLine(pattern, t, line) ==
    LET r == find_missing_interpolations(pattern, t.last_msgid, line)
        called == [t EXCEPT !.calls = Append(@, Call(t.last_msgid, line, t.line_index))]
    IN  IF r = PANIC
        THEN [called EXCEPT !.pc = "panicked"]
        ELSE IF r.kind = "Some"
             THEN [called EXCEPT
                       !.errors = Append(@, Report(t.path, t.line_index, t.last_msgid, line)),
                       !.line_index = @ + 1]
             ELSE [called EXCEPT !.line_index = @ + 1]

\* LoopBody counting only the lines that are not msgid lines
LoopBody_SkipMsgidCount(pattern, t, line) ==
    LET u == [t EXCEPT !.read = Append(@, line)]
    IN  IF starts_with(line, MSGID)
        THEN [u EXCEPT !.last_msgid = line]
        ELSE IF IsTranslationPrefix(line)
             THEN CheckLine(pattern, u, line)
             ELSE [u EXCEPT !.line_index = @ + 1]

\* LoopBody taking every line that starts with msg for a msgid line
LoopBody_MsgPrefix(pattern, t, line) ==
    LET u == [t EXCEPT !.read = Append(@, line)]
    IN  IF starts_with(line, <<"m", "s", "g">>)
        THEN [u EXCEPT !.last_msgid = line, !.line_index = @ + 1]
        ELSE IF IsTranslationPrefix(line)
             THEN CheckLine(pattern, u, line)
             ELSE [u EXCEPT !.line_index = @ + 1]

\* LoopBody that only checks the msgstr lines, not the continuation lines
LoopBody_MsgstrOnly(pattern, t, line) ==
    LET u == [t EXCEPT !.read = Append(@, line)]
    IN  IF starts_with(line, MSGID)
        THEN [u EXCEPT !.last_msgid = line, !.line_index = @ + 1]
        ELSE IF starts_with(line, MSGSTR)
             THEN CheckLine(pattern, u, line)
             ELSE [u EXCEPT !.line_index = @ + 1]

\* LoopBody giving every line that is no msgid line to the matcher
LoopBody_CheckAll(pattern, t, line) ==
    LET u == [t EXCEPT !.read = Append(@, line)]
    IN  IF starts_with(line, MSGID)
        THEN [u EXCEPT !.last_msgid = line, !.line_index = @ + 1]
        ELSE CheckLine(pattern, u, line)

\* main.rs:64-80: one iteration of the for loop on a line read without
\* error.  line_index is a u32 that starts at 1: it cannot wrap within
\* the lengths of the files of the model.
LoopBody(pattern, t, line) ==
    LET u == [t EXCEPT !.read = Append(@, line)]
    IN  IF starts_with(line, MSGID)
        THEN [u EXCEPT !.last_msgid = line, !.line_index = @ + 1]
        ELSE IF IsTranslationPrefix(line)
             THEN CheckLine(pattern, u, line)
             ELSE [u EXCEPT !.line_index = @ + 1]

(***************************************************************************)
(* State.                                                                  *)
(***************************************************************************)
VARIABLES
    m_pattern,      \* matcher: params.pattern
    m_last_msgid,   \* matcher: params.last_msgid
    m_line,         \* matcher: params.line
    m_result,       \* matcher: PENDING before the call, then its result
    pattern,        \* args.pattern
    tasks,          \* the scans (process_file), in the order they were spawned
    pb_pos,         \* the position of the progress bar pb
    dir,            \* the entries of the directory args.path
    dir_readable,   \* whether listing the directory succeeds
    main_pc,        \* main: where it is
    next_entry,     \* main: the entry the loop of main.rs:102 is at
    pb_len,         \* the length of the progress bar pb
    has_po_files,   \* main: has_po_files
    awaited,        \* main: how many tasks the loop of main.rs:130 has awaited
    all_errors,     \* main: all_errors
    printed,        \* what pb.println has printed, in order
    outcome,        \* how the process ended, "running" before
    completed       \* the tasks whose process_file has ended, in the order
                    \* they ended (a record of the run, read by no step)

mvars == <<m_pattern, m_last_msgid, m_line, m_result>>
svars == <<pattern, tasks, pb_pos>>
rvars == <<dir, dir_readable, main_pc, next_entry, pb_len, has_po_files,
           awaited, all_errors, printed, outcome>>
vars == <<mvars, svars, rvars, completed>>

MatcherIdle ==
    /\ m_pattern = DefaultPattern
    /\ m_last_msgid = <<>>
    /\ m_line = <<>>
    /\ m_result = PENDING

\* main before its first statement, on a directory without entries
MainIdle ==
    /\ dir = <<>>
    /\ dir_readable = TRUE
    /\ main_pc = "count"
    /\ next_entry = 1
    /\ pb_len = 0
    /\ has_po_files = FALSE
    /\ awaited = 0
    /\ all_errors = <<>>
    /\ printed = <<>>
    /\ outcome = "running"
    /\ completed = <<>>

(***************************************************************************)
(* The steps of a scan.                                                    *)
(***************************************************************************)
\* main.rs:57: File::open succeeds
TaskOpen(i) ==
    /\ tasks[i].pc = "open"
    /\ tasks' = [tasks EXCEPT ![i].pc = "lines"]
    /\ UNCHANGED pb_pos

\* TaskOpenFail counting the file as processed
TaskOpenFail_Counts(i) ==
    /\ tasks[i].pc = "open"
    /\ tasks' = [tasks EXCEPT ![i].pc = "failed"]
    /\ pb_pos' = pb_pos + 1

\* main.rs:57: File::open fails, ? returns the error
TaskOpenFail(i) ==
    /\ tasks[i].pc = "open"
    /\ tasks' = [tasks EXCEPT ![i].pc = "failed"]
    /\ UNCHANGED pb_pos

\* TaskReadLine with one last_msgid for all the scans, kept by the first
TaskReadLine_SharedMsgid(i, line) ==
    /\ tasks[i].pc = "lines"
    /\ tasks' = [tasks EXCEPT ![i] =
                    LoopBody(pattern, [@ EXCEPT !.last_msgid = tasks[1].last_msgid], line)]
    /\ UNCHANGED pb_pos

\* main.rs:63-81: the reader yields Ok(line) and the loop body runs on it
TaskReadLine(i, line) ==
    /\ tasks[i].pc = "lines"
    /\ tasks' = [tasks EXCEPT ![i] = LoopBody(pattern, @, line)]
    /\ UNCHANGED pb_pos

\* TaskReadFail returning what the scan holds so far instead of the error
TaskReadFail_ReturnsPartial(i) ==
    /\ tasks[i].pc = "lines"
    /\ tasks' = [tasks EXCEPT ![i].pc = "returned"]
    /\ UNCHANGED pb_pos

\* main.rs:64: the reader yields Err, ? returns it
TaskReadFail(i) ==
    /\ tasks[i].pc = "lines"
    /\ tasks' = [tasks EXCEPT ![i].pc = "failed"]
    /\ UNCHANGED pb_pos

\* main.rs:82-83: the reader is exhausted; pb.inc(1) (an atomic add) and
\* Ok(errors)
TaskEof(i) ==
    /\ tasks[i].pc = "lines"
    /\ tasks' = [tasks EXCEPT ![i].pc = "returned"]
    /\ pb_pos' = pb_pos + 1

(***************************************************************************)
(* SpecMatcher: one call of find_missing_interpolations on any pattern,    *)
(* any current msgid and any msgstr / continuation line.                   *)
(***************************************************************************)
\* values last_msgid can have: empty, or a line that starts with msgid
MsgidValues == {<<>>} \cup {MsgidLine(b) : b \in SeqsUpTo(Alphabet, MaxSrcLen)}
\* lines the scanner hands to the matcher
TranslationLines ==
    {MsgstrLine(b) : b \in SeqsUpTo(Alphabet, MaxLineLen)}
        \cup {QuotedLine(b) : b \in SeqsUpTo(Alphabet, MaxLineLen)}

MatcherInit ==
    /\ m_pattern \in Patterns
    /\ m_last_msgid \in MsgidValues
    /\ m_line \in TranslationLines
    /\ m_result = PENDING
    /\ pattern = DefaultPattern
    /\ tasks = <<>>
    /\ pb_pos = 0
    /\ MainIdle

CallMatcher ==
    /\ m_result = PENDING
    /\ m_result' = find_missing_interpolations(m_pattern, m_last_msgid, m_line)
    /\ UNCHANGED <<m_pattern, m_last_msgid, m_line>>
    /\ UNCHANGED <<svars, rvars, completed>>

MatcherNext == CallMatcher

SpecMatcher == MatcherInit /\ [][MatcherNext]_vars

(***************************************************************************)
(* Claims on the matcher (checked under SpecMatcher).                      *)
(***************************************************************************)
\* S and T of the call: the interpolations of the msgid and of the line
m_S == find_iter(m_pattern, m_last_msgid)
m_T == find_iter(m_pattern, m_line)
m_called == m_result # PENDING /\ Compiles(m_pattern)
m_empty_line == m_line \in {EMPTY_MSGSTR, EMPTY_QUOTED}
\* positions in S of the interpolations the line does not contain
m_absent == {k \in 1..Len(m_S) : ~contains(m_line, m_S[k])}

\* C1: when the msgid and the translation line hold the same number of
\* matches of the pattern, the call returns None, whatever the matches are.
C1_EqualCountsMatch ==
    (m_called /\ Len(m_S) = Len(m_T)) => m_result = NONE

\* equal counts, none of the msgid's interpolations is in the line, the line
\* is not an empty one, and the call returned None
C1_Witness ==
    /\ m_called
    /\ Len(m_S) = Len(m_T)
    /\ Len(m_S) >= 1
    /\ m_absent = 1..Len(m_S)
    /\ ~m_empty_line
    /\ m_result = NONE

\* C2: when the counts differ, the line lacks at least one interpolation of
\* the msgid and the line is neither msgstr "" nor "", the call returns Some,
\* and returns at the first interpolation of the msgid that the line lacks.
C2_MissingAtFirstAbsent ==
    (m_called /\ Len(m_S) # Len(m_T) /\ m_absent # {} /\ ~m_empty_line)
        => m_result = SOME(SetMin(m_absent))

\* the line holds the first interpolation of the msgid and lacks the second
C2_Witness ==
    /\ m_called
    /\ Len(m_S) # Len(m_T)
    /\ Len(m_S) = 2
    /\ m_absent = {2}
    /\ ~m_empty_line
    /\ m_result = SOME(2)

\* C3: when the counts differ but the line contains every interpolation of
\* the msgid, the call returns None.
C3_AllContainedMatch ==
    (m_called /\ Len(m_S) # Len(m_T) /\ m_absent = {}) => m_result = NONE

\* two interpolations in the msgid, both in the line, which holds one match
C3_Witness ==
    /\ m_called
    /\ Len(m_S) = 2
    /\ Len(m_T) = 1
    /\ m_absent = {}
    /\ ~m_empty_line
    /\ m_result = NONE

\* C4: on the line msgstr "" and on the line "" the call never returns Some:
\* with a pattern that compiles it returns None, whatever the msgid is.
C4_EmptyLineMatch ==
    (m_result # PENDING /\ m_empty_line)
        => /\ m_result.kind # "Some"
           /\ Compiles(m_pattern) => m_result = NONE

\* the line is "", the msgid holds an interpolation, the counts differ (the
\* loop ran), and the call returned None
C4_Witness ==
    /\ m_called
    /\ m_line = EMPTY_QUOTED
    /\ Len(m_S) >= 1
    /\ m_absent # {}
    /\ m_result = NONE

\* the same on the line msgstr ""
C4_WitnessMsgstr ==
    /\ m_called
    /\ m_line = EMPTY_MSGSTR
    /\ Len(m_S) >= 1
    /\ m_absent # {}
    /\ m_result = NONE

(***************************************************************************)
(* SpecScan: process_file on one catalog, whose lines are any lines of     *)
(* ScanLines, under any pattern.  The catalog is what the reader yields:   *)
(* a line, the end of the file or an error.                                *)
(***************************************************************************)
\* most lines of a catalog of the model
MaxLines == 4

\* the texts between the quotes: empty, one placeholder of the brace
\* patterns, one match of a+ (and no placeholder of the brace patterns)
ScanBodies == {<<>>, <<"{", "}">>, <<"a">>}
\* the lines of a catalog: msgid lines with a placeholder of one pattern or
\* the other, msgstr lines with each text, the empty continuation line and
\* one with a brace placeholder (a continuation line takes the same branch
\* as a msgstr line), a blank line and a comment that holds msgid after
\* its first character
ScanLines ==
    {MsgidLine(b) : b \in ScanBodies \ {<<>>}}
        \cup {MsgstrLine(b) : b \in ScanBodies}
        \cup {QuotedLine(b) : b \in ScanBodies \ {<<"a">>}}
        \cup {<<>>, CommentLine(MSGID)}
\* the two brace patterns find the same matches in these lines: one of them
ScanPatterns == {DefaultPattern, RunPattern, InvalidPattern}

ScanPath == "a.po"

ScanInit ==
    /\ MatcherIdle
    /\ pattern \in ScanPatterns
    /\ tasks = <<NewScan(ScanPath)>>
    /\ pb_pos = 0
    /\ MainIdle

ScanOpen == TaskOpen(1) /\ UNCHANGED <<completed, mvars, pattern, rvars>>
ScanOpenFail == TaskOpenFail(1) /\ UNCHANGED <<completed, mvars, pattern, rvars>>
ScanReadLine ==
    /\ Len(tasks[1].read) < MaxLines
    /\ \E line \in ScanLines : TaskReadLine(1, line)
    /\ UNCHANGED <<completed, mvars, pattern, rvars>>
ScanReadFail == TaskReadFail(1) /\ UNCHANGED <<completed, mvars, pattern, rvars>>
ScanEof == TaskEof(1) /\ UNCHANGED <<completed, mvars, pattern, rvars>>

ScanNext ==
    \/ ScanOpen
    \/ ScanOpenFail
    \/ ScanReadLine
    \/ ScanReadFail
    \/ ScanEof

SpecScan == ScanInit /\ [][ScanNext]_vars

(***************************************************************************)
(* Claims on the scanner (checked under SpecScan).                         *)
(***************************************************************************)
\* the scan, and what a reader of the catalog alone can say of its lines
s_t == tasks[1]
Prefix(lines, n) == SubSeq(lines, 1, n)
MsgidIdx(lines) == {i \in 1..Len(lines) : starts_with(lines[i], MSGID)}
\* the most recent msgid line of lines, or the empty string
LastMsgidOf(lines) ==
    IF MsgidIdx(lines) = {} THEN <<>> ELSE lines[SetMax(MsgidIdx(lines))]
\* the lines that are msgstr or continuation lines and no msgid lines
TranslationIdx(lines) ==
    {i \in 1..Len(lines) :
        ~starts_with(lines[i], MSGID) /\ IsTranslationPrefix(lines[i])}
\* the msgid in force at line i
MsgidAt(lines, i) == LastMsgidOf(Prefix(lines, i - 1))
\* line m, checked on its own against the msgid in force at line i, is Missing
FailsAgainst(lines, i, m) ==
    find_missing_interpolations(pattern, MsgidAt(lines, i), lines[m]).kind = "Some"
FailsAt(lines, i) == FailsAgainst(lines, i, i)
ReportsAt(t, i) == {e \in 1..Len(t.errors) : t.errors[e].line_index = i}

\* C5: after any prefix of the lines, last_msgid is the most recent line of
\* the prefix that starts with msgid, or empty when there is none (so no
\* other line changes it), and no call of the matcher is on a msgid line.
C5_CurrentMsgid ==
    /\ s_t.last_msgid = LastMsgidOf(s_t.read)
    /\ \A k \in 1..Len(s_t.calls) :
        /\ ~starts_with(s_t.calls[k].line, MSGID)
        /\ s_t.calls[k].line_index \in 1..Len(s_t.read)
        /\ ~starts_with(s_t.read[s_t.calls[k].line_index], MSGID)

\* two different msgid lines, then a msgstr line and a line of no kind:
\* last_msgid is the second msgid line
C5_Witness ==
    /\ Len(s_t.read) = 4
    /\ starts_with(s_t.read[1], MSGID)
    /\ starts_with(s_t.read[2], MSGID)
    /\ s_t.read[1] # s_t.read[2]
    /\ starts_with(s_t.read[3], MSGSTR)
    /\ ~IsTranslationPrefix(s_t.read[4]) /\ ~starts_with(s_t.read[4], MSGID)
    /\ s_t.last_msgid = s_t.read[2]
    /\ Len(s_t.calls) = 1

\* C6: the calls of the matcher are, in order, one for each msgstr or
\* continuation line read, with the msgid in force and that line; the
\* reports are, in order, one for each of those lines whose call returned
\* Some, with the path, the line's index, that msgid and the line.
C6_CallAndReport ==
    LET read == s_t.read
        calls == s_t.calls
        errors == s_t.errors
        translations == TranslationIdx(read)
        reported == {errors[e].line_index : e \in 1..Len(errors)}
    IN  /\ Len(calls) = Cardinality(translations)
        /\ \A k \in 1..Len(calls) :
            LET i == calls[k].line_index
            IN  /\ i \in translations
                /\ calls[k] = Call(MsgidAt(read, i), read[i], i)
                /\ \A j \in 1..(k - 1) : calls[j].line_index < i
        /\ reported \subseteq translations
        /\ \A i \in translations : (i \in reported) <=> FailsAt(read, i)
        /\ \A e \in 1..Len(errors) :
            LET i == errors[e].line_index
            IN  /\ errors[e] = Report(s_t.path, i, MsgidAt(read, i), read[i])
                /\ \A d \in 1..(e - 1) : errors[d].line_index < i

\* a msgstr line reported and a continuation line not reported, both
\* checked against the same msgid
C6_Witness ==
    /\ Len(s_t.read) = 3
    /\ starts_with(s_t.read[1], MSGID)
    /\ starts_with(s_t.read[2], MSGSTR)
    /\ starts_with(s_t.read[3], QUOTE)
    /\ s_t.read[3] # EMPTY_QUOTED
    /\ Len(s_t.calls) = 2
    /\ s_t.errors = <<Report(ScanPath, 2, s_t.read[1], s_t.read[2])>>

\* C7: line_index is one more than the number of lines read, whatever the
\* lines are, and the index in a report is the position in the file of
\* the line it reports.
C7_LineIndex ==
    /\ s_t.pc # "panicked" => s_t.line_index = Len(s_t.read) + 1
    /\ \A e \in 1..Len(s_t.errors) :
        /\ s_t.errors[e].line_index \in 1..Len(s_t.read)
        /\ s_t.read[s_t.errors[e].line_index] = s_t.errors[e].line

\* a report on line 4, after a line of no kind, a msgid line and a msgstr
\* line that is not reported
C7_Witness ==
    /\ Len(s_t.read) = 4
    /\ ~IsTranslationPrefix(s_t.read[1]) /\ ~starts_with(s_t.read[1], MSGID)
    /\ starts_with(s_t.read[2], MSGID)
    /\ starts_with(s_t.read[3], MSGSTR)
    /\ Len(s_t.errors) = 1
    /\ s_t.errors[1].line_index = 4
    /\ s_t.line_index = 5

\* C8: in a msgstr line followed by continuation lines, each continuation
\* line has exactly one report when it fails the check, on its own, against
\* the msgid in force at the msgstr line, and no report otherwise.
C8_ContinuationLines ==
    \A i \in 1..Len(s_t.read) : \A m \in (i + 1)..Len(s_t.read) :
        (/\ starts_with(s_t.read[i], MSGSTR)
         /\ \A j \in (i + 1)..m : starts_with(s_t.read[j], QUOTE))
        => /\ Cardinality(ReportsAt(s_t, m)) =
                  IF FailsAgainst(s_t.read, i, m) THEN 1 ELSE 0
           /\ \A e \in ReportsAt(s_t, m) :
                  s_t.errors[e].last_msgid = MsgidAt(s_t.read, i)

\* one msgid line, its msgstr line without report, and two continuation
\* lines with one report each
C8_Witness ==
    /\ Len(s_t.read) = 4
    /\ starts_with(s_t.read[1], MSGID)
    /\ starts_with(s_t.read[2], MSGSTR)
    /\ starts_with(s_t.read[3], QUOTE)
    /\ starts_with(s_t.read[4], QUOTE)
    /\ Len(s_t.errors) = 2
    /\ s_t.errors[1].line_index = 3
    /\ s_t.errors[2].line_index = 4
    /\ s_t.errors[1].last_msgid = s_t.read[1]
    /\ s_t.errors[2].last_msgid = s_t.read[1]

\* C18: a line has at most one report, every report is on a line that
\* starts with msgstr or with a double quote (on no msgid line and on no
\* other line), and the reports are in the order of their lines.
C18_OneReportPerTranslationLine ==
    /\ \A i \in 1..Len(s_t.read) : Cardinality(ReportsAt(s_t, i)) <= 1
    /\ \A e \in 1..Len(s_t.errors) :
        LET i == s_t.errors[e].line_index
        IN  /\ i \in 1..Len(s_t.read)
            /\ starts_with(s_t.read[i], MSGSTR) \/ starts_with(s_t.read[i], QUOTE)
            /\ ~starts_with(s_t.read[i], MSGID)
            /\ \A d \in 1..(e - 1) : s_t.errors[d].line_index < i
    /\ Len(s_t.errors) <= Cardinality(TranslationIdx(s_t.read))

\* a msgid line, a msgstr line with a report, a line of no kind without
\* one although it lacks the placeholder, and a continuation line with a
\* report
C18_Witness ==
    /\ Len(s_t.read) = 4
    /\ starts_with(s_t.read[1], MSGID)
    /\ starts_with(s_t.read[2], MSGSTR)
    /\ ~IsTranslationPrefix(s_t.read[3]) /\ ~starts_with(s_t.read[3], MSGID)
    /\ starts_with(s_t.read[4], QUOTE)
    /\ Len(s_t.errors) = 2
    /\ s_t.errors[1].line_index = 2
    /\ s_t.errors[2].line_index = 4

\* C20: a msgstr or continuation line checked while last_msgid is still
\* the empty string has no report, whatever it holds and whatever the
\* pattern; the msgid of every report is a line that starts with msgid and
\* was read before the reported line, the last such line.
C20_NoReportBeforeFirstMsgid ==
    \A i \in 1..Len(tasks) :
        LET t == tasks[i]
        IN  /\ \A k \in 1..Len(t.calls) :
                  t.calls[k].last_msgid = <<>>
                      => ReportsAt(t, t.calls[k].line_index) = {}
            /\ \A e \in 1..Len(t.errors) :
                LET r == t.errors[e]
                    before == {j \in 1..(r.line_index - 1) : starts_with(t.read[j], MSGID)}
                IN  /\ r.last_msgid # <<>>
                    /\ starts_with(r.last_msgid, MSGID)
                    /\ before # {}
                    /\ r.last_msgid = t.read[SetMax(before)]

\* a msgstr line with a placeholder read before any msgid line and checked
\* against the empty string without report, then a msgid line and a msgstr
\* line that is reported against it
C20_Witness ==
    /\ Compiles(pattern)
    /\ Len(s_t.read) = 3
    /\ starts_with(s_t.read[1], MSGSTR)
    /\ find_iter(pattern, s_t.read[1]) # <<>>
    /\ starts_with(s_t.read[2], MSGID)
    /\ starts_with(s_t.read[3], MSGSTR)
    /\ s_t.calls[1] = Call(<<>>, s_t.read[1], 1)
    /\ s_t.errors = <<Report(ScanPath, 3, s_t.read[2], s_t.read[3])>>

(***************************************************************************)
(* main (main.rs:86-151) and the tasks it spawns.                          *)
(*                                                                         *)
(* process_file has no await in it: a task runs from File::open to its     *)
(* return in one poll, in parallel with main and with the other tasks,     *)
(* and what it shares with them is pb (an atomic counter) and its own      *)
(* JoinHandle.  A task is therefore one step here: the loop body of        *)
(* process_file on each line of its catalog, then pb.inc(1).               *)
(*   main_pc: "count"    before read_dir(dir)?.count()   (main.rs:90)      *)
(*            "read_dir" before read_dir(dir)?           (main.rs:102)     *)
(*            "entries"  in the loop over the entries    (main.rs:102-113) *)
(*            "check"    at if !has_po_files             (main.rs:115)     *)
(*            "await"    in the loop over the tasks      (main.rs:130-141) *)
(*            "done"     the process has ended                             *)
(*   outcome: "running", "exit_no_po" (exit(1), main.rs:121),              *)
(*            "exit_errors" (exit(1), main.rs:145), "ok" (Ok(())),         *)
(*            "io_error" (an Err of main.rs:90, 102, 103 or 138),          *)
(*            "join_error" (the Err of main.rs:139)                        *)
(***************************************************************************)
\* most entries of the directory
MaxEntries == 2

\* catalogs: one without mismatch, one with a mismatch on its msgstr line
\* and one on its continuation line, one without any translation line
CleanCatalog == <<MsgidLine(<<"{", "}">>), MsgstrLine(<<"{", "}">>)>>
BadCatalog == <<MsgidLine(<<"{", "}">>), MsgstrLine(<<"a">>), QuotedLine(<<"a">>)>>
PlainCatalog == <<CommentLine(MSGID)>>
RunFiles == {CleanCatalog, BadCatalog, PlainCatalog}

\* the entries of a directory: regular files named *.po with a catalog in
\* them, a regular file of another extension, a directory named *.po
EntryValues ==
    {[is_file |-> TRUE, extension |-> "po", content |-> c] : c \in RunFiles}
        \cup {[is_file |-> TRUE, extension |-> "txt", content |-> <<>>],
              [is_file |-> FALSE, extension |-> "po", content |-> <<>>]}

RunPatterns == {DefaultPattern, InvalidPattern}

\* entry.path() of the i-th entry
PathOf(i) == <<"dir", i>>
ContentOf(path) == dir[path[2]].content

\* the condition of main.rs:105
IsPoFile(entry) == entry.is_file /\ entry.extension = "po"

\* the texts pb.println prints beside the reports
NO_PO_FILES == "[ERROR] No .po files found"
PROCESSING == "[INFO]  Processing .po files"
DONE == "[INFO]  Done"

\* ScanPrefix leaving the loop at the first report
RECURSIVE ScanPrefix_StopAtReport(_, _, _, _)
ScanPrefix_StopAtReport(pat, t, lines, n) ==
    IF n = 0
    THEN t
    ELSE LET u == ScanPrefix_StopAtReport(pat, t, lines, n - 1)
         IN  IF u.pc = "panicked" \/ u.errors # <<>>
             THEN u
             ELSE LoopBody(pat, u, lines[n])

\* the for loop of process_file on the first n lines of a catalog, from a
\* scan t that has opened it
RECURSIVE ScanPrefix(_, _, _, _)
ScanPrefix(pat, t, lines, n) ==
    IF n = 0
    THEN t
    ELSE LET u == ScanPrefix(pat, t, lines, n - 1)
         IN  IF u.pc = "panicked" THEN u ELSE LoopBody(pat, u, lines[n])

RunInit ==
    /\ MatcherIdle
    /\ pattern \in RunPatterns
    /\ tasks = <<>>
    /\ pb_pos = 0
    /\ dir \in SeqsUpTo(EntryValues, MaxEntries)
    /\ dir_readable \in BOOLEAN
    /\ main_pc = "count"
    /\ next_entry = 1
    /\ pb_len = 0
    /\ has_po_files = FALSE
    /\ awaited = 0
    /\ all_errors = <<>>
    /\ printed = <<>>
    /\ outcome = "running"
    /\ completed = <<>>

\* a task can be polled: the process has not exited, and the runtime has
\* not been dropped before the task was first polled
Schedulable(i) ==
    /\ i \in 1..Len(tasks)
    /\ tasks[i].pc = "open"
    /\ outcome = "running"

\* process_file on the first n lines of the catalog of task i: the loop
\* body on each of them, then the return (end is "returned" for Ok(errors),
\* "failed" for the Err of a read), or the panic of main.rs:32 on the way
ScanOf(i, n, end) ==
    LET u == ScanPrefix(pattern, [tasks[i] EXCEPT !.pc = "lines"],
                        ContentOf(tasks[i].path), n)
    IN  IF u.pc = "panicked" THEN u ELSE [u EXCEPT !.pc = end]

\* main.rs:110, process_file to its end: every line is read, pb.inc(1),
\* Ok(errors); no pb.inc when it panics
TaskRun(i) ==
    /\ Schedulable(i)
    /\ LET u == ScanOf(i, Len(ContentOf(tasks[i].path)), "returned")
       IN  /\ tasks' = [tasks EXCEPT ![i] = u]
           /\ pb_pos' = IF u.pc = "returned" THEN pb_pos + 1 ELSE pb_pos
    /\ UNCHANGED <<mvars, pattern, rvars>>
    /\ completed' = Append(completed, i)

\* main.rs:57: the file cannot be opened
TaskRunOpenFail(i) ==
    /\ Schedulable(i)
    /\ tasks' = [tasks EXCEPT ![i].pc = "failed"]
    /\ UNCHANGED <<mvars, pattern, pb_pos, rvars>>
    /\ completed' = Append(completed, i)

\* main.rs:64: the read after the first n lines fails
TaskRunReadFail(i, n) ==
    /\ Schedulable(i)
    /\ n \in 0..Len(ContentOf(tasks[i].path))
    /\ tasks' = [tasks EXCEPT ![i] = ScanOf(i, n, "failed")]
    /\ UNCHANGED <<mvars, pattern, pb_pos, rvars>>
    /\ completed' = Append(completed, i)

\* main.rs:90-91: the entries are counted for the length of the bar
MainCount ==
    /\ main_pc = "count"
    /\ main_pc' = "read_dir"
    /\ pb_len' = Len(dir)
    /\ UNCHANGED <<completed, mvars, svars, dir, dir_readable, next_entry, has_po_files,
                   awaited, all_errors, printed, outcome>>

\* main.rs:90, 102: read_dir(dir)? returns the error of the listing
MainReadDirFail ==
    /\ main_pc \in {"count", "read_dir"}
    /\ ~dir_readable
    /\ main_pc' = "done"
    /\ outcome' = "io_error"
    /\ UNCHANGED <<completed, mvars, svars, dir, dir_readable, next_entry, pb_len,
                   has_po_files, awaited, all_errors, printed>>

\* main.rs:101-102: the directory is opened again for the loop
MainReadDir ==
    /\ main_pc = "read_dir"
    /\ main_pc' = "entries"
    /\ UNCHANGED <<completed, mvars, svars, dir, dir_readable, next_entry, pb_len,
                   has_po_files, awaited, all_errors, printed, outcome>>

\* main.rs:102-112: one entry; a task is spawned for a regular file of
\* extension po
MainEntry ==
    /\ main_pc = "entries"
    /\ next_entry <= Len(dir)
    /\ IF IsPoFile(dir[next_entry])
       THEN /\ has_po_files' = TRUE
            /\ tasks' = Append(tasks, NewScan(PathOf(next_entry)))
       ELSE UNCHANGED <<has_po_files, tasks>>
    /\ next_entry' = next_entry + 1
    /\ UNCHANGED <<completed, mvars, pattern, pb_pos, dir, dir_readable, main_pc, pb_len,
                   awaited, all_errors, printed, outcome>>

\* main.rs:103: entry? returns the error of the iterator
MainEntryFail ==
    /\ main_pc = "entries"
    /\ next_entry <= Len(dir)
    /\ ~dir_readable
    /\ main_pc' = "done"
    /\ outcome' = "io_error"
    /\ UNCHANGED <<completed, mvars, svars, dir, dir_readable, next_entry, pb_len,
                   has_po_files, awaited, all_errors, printed>>

\* main.rs:102, 113: no entry is left
MainEntriesEnd ==
    /\ main_pc = "entries"
    /\ next_entry > Len(dir)
    /\ main_pc' = "check"
    /\ UNCHANGED <<completed, mvars, svars, dir, dir_readable, next_entry, pb_len,
                   has_po_files, awaited, all_errors, printed, outcome>>

\* MainCheck printing the diagnostic without leaving
MainCheck_NoExit ==
    /\ main_pc = "check"
    /\ printed' = Append(printed, IF has_po_files THEN PROCESSING ELSE NO_PO_FILES)
    /\ main_pc' = "await"
    /\ UNCHANGED <<completed, mvars, svars, dir, dir_readable, next_entry, pb_len,
                   has_po_files, awaited, all_errors, outcome>>

\* main.rs:115-127: without a catalog the diagnostic is printed and the
\* process exits with status 1
MainCheck ==
    /\ main_pc = "check"
    /\ IF ~has_po_files
       THEN /\ printed' = Append(printed, NO_PO_FILES)
            /\ main_pc' = "done"
            /\ outcome' = "exit_no_po"
       ELSE /\ printed' = Append(printed, PROCESSING)
            /\ main_pc' = "await"
            /\ UNCHANGED outcome
    /\ UNCHANGED <<completed, mvars, svars, dir, dir_readable, next_entry, pb_len,
                   has_po_files, awaited, all_errors>>

\* MainAwaitOk putting the reports of the task before those it holds
MainAwaitOk_Prepend ==
    /\ main_pc = "await"
    /\ awaited < Len(tasks)
    /\ tasks[awaited + 1].pc = "returned"
    /\ printed' = printed \o tasks[awaited + 1].errors
    /\ all_errors' = tasks[awaited + 1].errors \o all_errors
    /\ awaited' = awaited + 1
    /\ UNCHANGED <<completed, mvars, svars, dir, dir_readable, main_pc, next_entry, pb_len,
                   has_po_files, outcome>>

\* main.rs:131-137: the next task has returned Ok(errors): each is printed
\* and all are appended to all_errors
MainAwaitOk ==
    /\ main_pc = "await"
    /\ awaited < Len(tasks)
    /\ tasks[awaited + 1].pc = "returned"
    /\ printed' = printed \o tasks[awaited + 1].errors
    /\ all_errors' = all_errors \o tasks[awaited + 1].errors
    /\ awaited' = awaited + 1
    /\ UNCHANGED <<completed, mvars, svars, dir, dir_readable, main_pc, next_entry, pb_len,
                   has_po_files, outcome>>

\* MainAwaitErr keeping the error to the file: the task is skipped
MainAwaitErr_Skip ==
    /\ main_pc = "await"
    /\ awaited < Len(tasks)
    /\ tasks[awaited + 1].pc = "failed"
    /\ awaited' = awaited + 1
    /\ UNCHANGED <<completed, mvars, svars, dir, dir_readable, main_pc, next_entry, pb_len,
                   has_po_files, all_errors, printed, outcome>>

\* main.rs:138: the next task has returned Err(e): main returns it
MainAwaitErr ==
    /\ main_pc = "await"
    /\ awaited < Len(tasks)
    /\ tasks[awaited + 1].pc = "failed"
    /\ main_pc' = "done"
    /\ outcome' = "io_error"
    /\ UNCHANGED <<completed, mvars, svars, dir, dir_readable, next_entry, pb_len,
                   has_po_files, awaited, all_errors, printed>>

\* main.rs:139: the next task has panicked: main returns the JoinError as
\* an io::Error
MainAwaitPanic ==
    /\ main_pc = "await"
    /\ awaited < Len(tasks)
    /\ tasks[awaited + 1].pc = "panicked"
    /\ main_pc' = "done"
    /\ outcome' = "join_error"
    /\ UNCHANGED <<completed, mvars, svars, dir, dir_readable, next_entry, pb_len,
                   has_po_files, awaited, all_errors, printed>>

\* MainFinish returning Ok(()) without the last line
MainFinish_NoDone ==
    /\ main_pc = "await"
    /\ awaited = Len(tasks)
    /\ main_pc' = "done"
    /\ outcome' = IF all_errors # <<>> THEN "exit_errors" ELSE "ok"
    /\ UNCHANGED <<completed, mvars, svars, dir, dir_readable, next_entry, pb_len,
                   has_po_files, awaited, all_errors, printed>>

\* MainFinish with its test inverted: exit(1) when all_errors is empty
MainFinish_Inverted ==
    /\ main_pc = "await"
    /\ awaited = Len(tasks)
    /\ main_pc' = "done"
    /\ IF all_errors = <<>>
       THEN /\ outcome' = "exit_errors"
            /\ UNCHANGED printed
       ELSE /\ outcome' = "ok"
            /\ printed' = Append(printed, DONE)
    /\ UNCHANGED <<completed, mvars, svars, dir, dir_readable, next_entry, pb_len,
                   has_po_files, awaited, all_errors>>

\* main.rs:143-150: every task has been awaited
MainFinish ==
    /\ main_pc = "await"
    /\ awaited = Len(tasks)
    /\ main_pc' = "done"
    /\ IF all_errors # <<>>
       THEN /\ outcome' = "exit_errors"
            /\ UNCHANGED printed
       ELSE /\ outcome' = "ok"
            /\ printed' = Append(printed, DONE)
    /\ UNCHANGED <<completed, mvars, svars, dir, dir_readable, next_entry, pb_len,
                   has_po_files, awaited, all_errors>>

MainNext ==
    \/ MainCount
    \/ MainReadDirFail
    \/ MainReadDir
    \/ MainEntry
    \/ MainEntryFail
    \/ MainEntriesEnd
    \/ MainCheck
    \/ MainAwaitOk
    \/ MainAwaitErr
    \/ MainAwaitPanic
    \/ MainFinish

TaskNext ==
    \/ \E i \in 1..Len(tasks) : TaskRun(i)
    \/ \E i \in 1..Len(tasks) : TaskRunOpenFail(i)
    \/ \E i \in 1..Len(tasks) :
           \E n \in 0..Len(ContentOf(tasks[i].path)) : TaskRunReadFail(i, n)

RunNext == MainNext \/ TaskNext

SpecRun == RunInit /\ [][RunNext]_vars

\* block_on polls main until it returns: a step of main that stays
\* possible is taken
SpecRunFair == SpecRun /\ WF_vars(MainNext)

\* the steps of task i: process_file ends in Ok, in the Err of File::open or
\* in the Err of a read
TaskOf(i) ==
    /\ i \in 1..Len(tasks)
    /\ \/ TaskRunOpenFail(i)
       \/ TaskRun(i)
       \/ \E n \in 0..Len(ContentOf(tasks[i].path)) : TaskRunReadFail(i, n)

\* the workers of the runtime also poll the spawned tasks for as long as
\* main has not returned: while some task stays schedulable, some task
\* makes its step (less than the runtime gives, which polls every task)
SpecRunLive ==
    SpecRun /\ WF_vars(MainNext) /\ WF_vars(\E i \in 1..MaxEntries : TaskOf(i))

(***************************************************************************)
(* Claims on the coordinator (checked under SpecRun and SpecRunFair).      *)
(***************************************************************************)
\* C9: a pattern that does not compile ends the run with a configuration
\* error before the directory is listed, a file is opened or a scan is
\* started.
C9_CompiledBeforeAnyIO ==
    ~Compiles(pattern)
        => /\ tasks = <<>>
           /\ main_pc \in {"count", "done"}
           /\ main_pc = "done" => outcome = "configuration_error"

\* the directory holds no regular file of extension po
NoPoFile == \A i \in 1..Len(dir) : ~(dir[i].is_file /\ dir[i].extension = "po")

\* C10: on a readable directory without a regular file of extension po, no
\* scan is ever started (so the matcher is never called), nothing but the
\* diagnostic is printed, and the run ends, with exit(1) after the
\* diagnostic.
C10_NoCatalogs ==
    /\ [](dir_readable /\ NoPoFile
            => /\ tasks = <<>>
               /\ all_errors = <<>>
               /\ outcome \in {"running", "exit_no_po"}
               /\ printed = IF outcome = "running" THEN <<>> ELSE <<NO_PO_FILES>>)
    /\ (dir_readable /\ NoPoFile) ~> (main_pc = "done" /\ outcome = "exit_no_po")

\* the run has ended with exit(1) on a directory that holds a directory
\* named *.po and a file of another extension
C10_Witness ==
    /\ dir_readable
    /\ Len(dir) = 2
    /\ \E i \in 1..2 : ~dir[i].is_file /\ dir[i].extension = "po"
    /\ \E i \in 1..2 : dir[i].is_file /\ dir[i].extension # "po"
    /\ outcome = "exit_no_po"
    /\ printed = <<NO_PO_FILES>>
    /\ tasks = <<>>

\* the entries main spawns a scan for
PoIdx == {i \in 1..Len(dir) : IsPoFile(dir[i])}
\* a run in which catalog files are found: the directory can be listed and
\* holds a catalog
CatalogRun == dir_readable /\ PoIdx # {}
\* no scan has ended in the Err of File::open or of a read
NoIOFailure == \A i \in 1..Len(tasks) : tasks[i].pc # "failed"
\* the reports process_file makes of a catalog read to its end
ReportsOf(pat, path, lines) == ScanPrefix(pat, NewScan(path), lines, Len(lines)).errors
\* no line of the catalog of entry i makes a report under the pattern
CleanEntry(i) == ReportsOf(pattern, PathOf(i), dir[i].content) = <<>>
AllClean == \A i \in PoIdx : CleanEntry(i)

\* C11: on a directory whose catalogs (one or more) hold no mismatch, a run
\* in which no scan ends in an I/O error ends, whatever the order the scans
\* run in, with Ok(()) after printing Done as its last line.
C11_CleanRunSucceeds ==
    (CatalogRun /\ AllClean /\ NoIOFailure /\ main_pc = "done")
        => /\ outcome = "ok"
           /\ printed = <<PROCESSING, DONE>>

\* C11 under a pattern that compiles: the run ends, and ends with Ok(())
\* after Done, with every catalog scanned to its end.
C11_UnderCompiledPattern ==
    /\ []((Compiles(pattern) /\ CatalogRun /\ AllClean /\ NoIOFailure
             /\ main_pc = "done")
           => /\ outcome = "ok"
              /\ printed = <<PROCESSING, DONE>>
              /\ all_errors = <<>>
              /\ Len(tasks) = Cardinality(PoIdx)
              /\ \A i \in 1..Len(tasks) : tasks[i].pc = "returned")
    /\ (Compiles(pattern) /\ CatalogRun /\ AllClean) ~> (main_pc = "done")

\* what main has printed when it has printed Done: the first line, the
\* reports of all_errors and Done; and when it has not
PrintedWithDone == <<PROCESSING>> \o all_errors \o <<DONE>>
PrintedWithoutDone == <<PROCESSING>> \o all_errors

\* C12: a run that found catalogs and in which no scan ended in an I/O
\* error ends with exit(1) when all_errors is not empty and with Ok(())
\* when it is empty, and Done is printed in the second case only.
C12_ExitStatus ==
    (CatalogRun /\ NoIOFailure /\ main_pc = "done")
        => /\ outcome = (IF all_errors # <<>> THEN "exit_errors" ELSE "ok")
           /\ printed = (IF outcome = "ok" THEN PrintedWithDone
                                           ELSE PrintedWithoutDone)

\* C12 under a pattern that compiles; all_errors is empty exactly when no
\* catalog holds a mismatch.
C12_UnderCompiledPattern ==
    (Compiles(pattern) /\ CatalogRun /\ NoIOFailure /\ main_pc = "done")
        => /\ outcome = (IF all_errors # <<>> THEN "exit_errors" ELSE "ok")
           /\ (all_errors = <<>>) <=> AllClean
           /\ printed = (IF outcome = "ok" THEN PrintedWithDone
                                           ELSE PrintedWithoutDone)

\* a mismatch has been found: some scan holds a report
MismatchFound == \E i \in 1..Len(tasks) : tasks[i].errors # <<>>
\* the reports of the first n tasks, in the order the tasks were spawned
RECURSIVE MergedUpTo(_)
MergedUpTo(n) == IF n = 0 THEN <<>> ELSE MergedUpTo(n - 1) \o tasks[n].errors
\* the lines of a catalog that fail the check against the msgid in force
FailingIdx(lines) == {k \in TranslationIdx(lines) : FailsAt(lines, k)}

\* C13: when a run that found catalogs has ended with no I/O error and some
\* scan holds a report, every catalog has been read to its last line,
\* every failing line of every catalog has its report, every report has
\* been printed, and the run has ended with exit(1) and without Done.
C13_MismatchDoesNotStop ==
    (CatalogRun /\ NoIOFailure /\ MismatchFound /\ main_pc = "done")
        => /\ outcome = "exit_errors"
           /\ Len(tasks) = Cardinality(PoIdx)
           /\ \A i \in 1..Len(tasks) :
                 /\ tasks[i].pc = "returned"
                 /\ tasks[i].read = ContentOf(tasks[i].path)
                 /\ {tasks[i].errors[e].line_index : e \in 1..Len(tasks[i].errors)}
                        = FailingIdx(tasks[i].read)
           /\ printed = <<PROCESSING>> \o MergedUpTo(Len(tasks))

\* a catalog with two mismatches and a catalog without, both read to the
\* end; the two reports are printed and the run has ended with exit(1)
C13_Witness ==
    /\ CatalogRun /\ NoIOFailure
    /\ main_pc = "done"
    /\ outcome = "exit_errors"
    /\ Len(tasks) = 2
    /\ Len(tasks[1].errors) = 2
    /\ tasks[2].errors = <<>>
    /\ tasks[2].read = ContentOf(tasks[2].path)
    /\ tasks[2].read # <<>>
    /\ printed = <<PROCESSING>> \o tasks[1].errors

\* some scan has ended in the Err of File::open or of a read
IOFailure == \E i \in 1..Len(tasks) : tasks[i].pc = "failed"
\* main has returned Err(io::Error) (main.rs:90, 102, 103, 138, 139)
ReturnedErr == outcome \in {"io_error", "join_error"}

\* C14: once a scan has ended in an I/O error the run ends, and it ends
\* with main returning an error, never with Ok(()) or with exit(1) of the
\* mismatches, whatever the catalogs hold.  Main stops at the first task,
\* in the order it awaits them, that did not return Ok: it returns that
\* task's error, and what it has printed and merged are the reports of the
\* tasks before that one only.
C14_IOFailureEndsRun ==
    /\ []((IOFailure /\ main_pc = "done")
           => /\ ReturnedErr
              /\ all_errors = MergedUpTo(awaited)
              /\ \/ printed = <<>>
                 \/ printed = <<PROCESSING>> \o MergedUpTo(awaited)
              /\ printed # <<>>
                   => /\ awaited < Len(tasks)
                      /\ \A i \in 1..awaited : tasks[i].pc = "returned"
                      /\ tasks[awaited + 1].pc \in {"failed", "panicked"}
                      /\ tasks[awaited + 1].pc = "failed" <=> outcome = "io_error"
                      /\ printed = <<PROCESSING>> \o MergedUpTo(awaited))
    /\ IOFailure ~> (main_pc = "done")

\* the first scan has ended in an I/O error and the second has returned two
\* reports: main has returned the error and printed and merged no report
C14_Witness ==
    /\ main_pc = "done"
    /\ dir_readable
    /\ outcome = "io_error"
    /\ Len(tasks) = 2
    /\ tasks[1].pc = "failed"
    /\ tasks[2].pc = "returned"
    /\ Len(tasks[2].errors) = 2
    /\ awaited = 0
    /\ all_errors = <<>>
    /\ printed = <<PROCESSING>>

\* the reports of the first n tasks of order, a sequence of task indices
RECURSIVE MergedInOrder(_, _)
MergedInOrder(order, n) ==
    IF n = 0 THEN <<>> ELSE MergedInOrder(order, n - 1) \o tasks[order[n]].errors
\* main has collected every task
AllCollected == main_pc = "done" /\ outcome \in {"ok", "exit_errors"}

\* C15 as the claim has it: when every scan has been collected, all_errors
\* is the reports of the files in the order their scans completed, those of
\* one file in the order the scan made them.
C15_CompletionOrder ==
    AllCollected => all_errors = MergedInOrder(completed, Len(completed))

\* C15, amended: all_errors is at every moment the reports of the tasks
\* collected so far in the order the tasks were spawned, which is the order
\* of their files in the directory listing, whatever order the scans
\* completed in; the reports of one file are together and in the order the
\* scan made them, by increasing line.
C15_SpawnOrder ==
    /\ all_errors = MergedUpTo(awaited)
    /\ AllCollected => awaited = Len(tasks)
    /\ \A a \in 1..Len(all_errors) : \A b \in (a + 1)..Len(all_errors) :
          \/ all_errors[a].path[2] < all_errors[b].path[2]
          \/ /\ all_errors[a].path = all_errors[b].path
             /\ all_errors[a].line_index < all_errors[b].line_index

\* the second scan completed before the first, both with two reports, and
\* all_errors holds those of the first before those of the second
C15_Witness ==
    /\ AllCollected
    /\ completed = <<2, 1>>
    /\ Len(tasks[1].errors) = 2
    /\ Len(tasks[2].errors) = 2
    /\ all_errors = tasks[1].errors \o tasks[2].errors
    /\ all_errors # tasks[2].errors \o tasks[1].errors

(***************************************************************************)
(* SpecPar: the scans line by line.  The workers of the runtime run the    *)
(* spawned tasks in parallel, so the steps of different scans (the open,   *)
(* each line, the end of the file) come in any order, and main collects    *)
(* meanwhile.  A run starts where main has spawned a task for each entry   *)
(* of a directory of catalogs and has printed its first line               *)
(* (main.rs:102-127).                                                      *)
(***************************************************************************)
\* a catalog whose msgstr line comes before any msgid line
OrphanCatalog ==
    <<MsgstrLine(<<"a">>), MsgidLine(<<"{", "}">>), MsgstrLine(<<"a">>)>>
ParFiles == {CleanCatalog, BadCatalog, OrphanCatalog}
ParEntries == {[is_file |-> TRUE, extension |-> "po", content |-> c] : c \in ParFiles}
ParPatterns == {DefaultPattern, StarPattern, InvalidPattern}

ParInit ==
    /\ MatcherIdle
    /\ pattern \in ParPatterns
    /\ dir \in SeqsUpTo(ParEntries, MaxEntries) \ {<<>>}
    /\ dir_readable = TRUE
    /\ tasks = [i \in 1..Len(dir) |-> NewScan(PathOf(i))]
    /\ pb_pos = 0
    /\ main_pc = "await"
    /\ next_entry = Len(dir) + 1
    /\ pb_len = Len(dir)
    /\ has_po_files = TRUE
    /\ awaited = 0
    /\ all_errors = <<>>
    /\ printed = <<PROCESSING>>
    /\ outcome = "running"
    /\ completed = <<>>

\* the task has ended with this step
Ended(i) == tasks'[i].pc \in {"returned", "failed", "panicked"}

\* a step of task i, for as long as the process has not ended
ParStep(i, step) ==
    /\ outcome = "running"
    /\ step
    /\ completed' = IF Ended(i) THEN Append(completed, i) ELSE completed
    /\ UNCHANGED <<mvars, pattern, rvars>>

ParOpen(i) == ParStep(i, TaskOpen(i))
ParOpenFail(i) == ParStep(i, TaskOpenFail(i))
\* the reader yields the next line of the file
ParReadLine(i) ==
    /\ Len(tasks[i].read) < Len(ContentOf(tasks[i].path))
    /\ ParStep(i, TaskReadLine(i, ContentOf(tasks[i].path)[Len(tasks[i].read) + 1]))
ParReadFail(i) == ParStep(i, TaskReadFail(i))
\* the reader has yielded every line
ParEof(i) ==
    /\ Len(tasks[i].read) = Len(ContentOf(tasks[i].path))
    /\ ParStep(i, TaskEof(i))

ParNext ==
    \/ \E i \in 1..Len(tasks) : ParOpen(i)
    \/ \E i \in 1..Len(tasks) : ParOpenFail(i)
    \/ \E i \in 1..Len(tasks) : ParReadLine(i)
    \/ \E i \in 1..Len(tasks) : ParReadFail(i)
    \/ \E i \in 1..Len(tasks) : ParEof(i)
    \/ MainAwaitOk
    \/ MainAwaitErr
    \/ MainAwaitPanic
    \/ MainFinish

SpecPar == ParInit /\ [][ParNext]_vars

(***************************************************************************)
(* Claims on the concurrent scans (checked under SpecPar).                 *)
(***************************************************************************)
\* the reports of the first n lines of a catalog, as its lines alone give
\* them: one for each msgstr or continuation line that fails the check
\* against the msgid line before it in the same catalog
RECURSIVE ExpectedReports(_, _, _)
ExpectedReports(path, lines, n) ==
    IF n = 0
    THEN <<>>
    ELSE ExpectedReports(path, lines, n - 1)
            \o (IF n \in TranslationIdx(lines) /\ FailsAt(lines, n)
                THEN <<Report(path, n, MsgidAt(lines, n), lines[n])>>
                ELSE <<>>)

\* C16: whatever the other scans have done so far, the scan of a file holds
\* as last_msgid the last msgid line it has read itself (the empty string
\* before the first), and as reports those its own lines give under the
\* pattern; when it returns, they are the reports of that file scanned
\* alone.
C16_ScanIsLocal ==
    \A i \in 1..Len(tasks) :
        LET t == tasks[i]
            content == ContentOf(t.path)
        IN  /\ Len(t.read) <= Len(content)
            /\ t.read = Prefix(content, Len(t.read))
            /\ t.last_msgid = LastMsgidOf(t.read)
            /\ t.errors = ExpectedReports(t.path, t.read, Len(t.read))
            /\ t.pc = "returned"
                 => /\ t.read = content
                    /\ t.errors = ReportsOf(pattern, t.path, content)

\* two scans under way: the first has read a msgid line with a placeholder,
\* the second has read a msgstr line without it before any msgid line of
\* its own, was checked against the empty string and holds no report
C16_Witness ==
    /\ Compiles(pattern)
    /\ Len(tasks) = 2
    /\ tasks[1].pc = "lines" /\ tasks[2].pc = "lines"
    /\ tasks[1].last_msgid = MsgidLine(<<"{", "}">>)
    /\ tasks[2].read = <<MsgstrLine(<<"a">>)>>
    /\ tasks[2].calls = <<Call(<<>>, MsgstrLine(<<"a">>), 1)>>
    /\ tasks[2].errors = <<>>

\* the scans whose file a report of all_errors is about
ScansOf(e) == {i \in 1..Len(tasks) : tasks[i].path = e.path}

\* C17: a scan that has ended in an I/O error, at the open or at a read,
\* makes no further step, so no later line of its file is processed; none
\* of the reports it held is in all_errors or is printed, and every report
\* main holds comes from a scan that read its file to the end.
C17_FailedScanDeliversNothing ==
    /\ [](\A i \in 1..Len(tasks) :
            tasks[i].pc = "failed"
                => /\ \A e \in 1..Len(all_errors) : all_errors[e].path # tasks[i].path
                   /\ awaited < i)
    /\ [](\A e \in 1..Len(all_errors) :
            /\ ScansOf(all_errors[e]) # {}
            /\ \A i \in ScansOf(all_errors[e]) :
                  /\ tasks[i].pc = "returned"
                  /\ tasks[i].read = ContentOf(tasks[i].path))
    /\ [](printed = PrintedWithoutDone \/ printed = PrintedWithDone)
    /\ [][\A i \in 1..Len(tasks) :
            tasks[i].pc = "failed" => tasks'[i] = tasks[i]]_vars

\* the read of the third line of a catalog has failed after the scan had
\* made a report on the second: main has returned the error, and the
\* report is neither merged nor printed
C17_Witness ==
    /\ Len(tasks) = 1
    /\ tasks[1].pc = "failed"
    /\ Len(tasks[1].read) = 2
    /\ Len(ContentOf(tasks[1].path)) = 3
    /\ Len(tasks[1].errors) = 1
    /\ main_pc = "done"
    /\ outcome = "io_error"
    /\ all_errors = <<>>
    /\ printed = <<PROCESSING>>

\* the scans that have returned Ok
ReturnedScans == {i \in 1..Len(tasks) : tasks[i].pc = "returned"}

\* C19: the position of the bar is the number of scans that have returned
\* Ok, at most the number of catalogs found; a step adds one to it exactly
\* when a scan goes from its loop to Ok, and never takes from it; and a
\* step of a scan changes that scan and the position only, nothing of
\* another scan or of main.
C19_ProgressCounter ==
    /\ [](/\ pb_pos = Cardinality(ReturnedScans)
          /\ pb_pos <= Len(tasks)
          /\ pb_pos <= Cardinality(PoIdx))
    /\ [][/\ pb_pos' \in {pb_pos, pb_pos + 1}
          /\ pb_pos' = pb_pos + 1
               <=> \E i \in 1..Len(tasks) :
                      tasks[i].pc = "lines" /\ tasks'[i].pc = "returned"
          /\ \A i \in 1..Len(tasks) :
                tasks'[i] # tasks[i]
                    => /\ \A j \in 1..Len(tasks) : j # i => tasks'[j] = tasks[j]
                       /\ rvars' = rvars
                       /\ pattern' = pattern]_vars

\* of two scans the second has returned Ok and the first has ended in the
\* error of a read after its first line: the position is 1
C19_Witness ==
    /\ Len(tasks) = 2
    /\ tasks[1].pc = "failed"
    /\ Len(tasks[1].read) = 1
    /\ tasks[2].pc = "returned"
    /\ completed = <<2, 1>>
    /\ pb_pos = 1

====
